---- MODULE Spec2Model ----
(***************************************************************************)
(* Model of the recording-and-exchange session of frontend/script.js (the  *)
(* variant with the cors/no-cors fallback, lines 122-298).  Every event    *)
(* handler of the script is one action; the browser (getUserMedia, the     *)
(* MediaRecorder, fetch, the timer, the Audio element) is the environment  *)
(* and supplies the inputs.  Each record click opens a session: the        *)
(* closure that holds its own stream, mediaRecorder and chunks.  Nothing  *)
(* in the script keeps a second click from running while an earlier        *)
(* session is recording or exchanging, so sessions overlap.  The earlier   *)
(* variant of the script (lines 1-121) has the same handlers without the   *)
(* no-cors fallback and the liveness check.                                *)
(***************************************************************************)
EXTENDS Naturals, Sequences, FiniteSets

MaxSessions  == 2    \* record clicks explored by Spec
MaxRerecords == 3    \* record clicks explored by SpecRerecord
MaxChunks    == 2    \* dataavailable events per recorder
MaxPlays     == 2    \* play clicks explored

Sessions == 1..MaxRerecords

\* audioBlob = null; the blob read from session s's response is s.
Null == 0

\* ---------------------------------------------------------------- inputs
\* what the remote service answers: an HTTP status and, on failure, an error text
Responses     == {[status |-> 200, body |-> ""],
                  [status |-> 404, body |-> "Not Found"],
                  [status |-> 500, body |-> "model unavailable"]}
DeviceErrors  == {"Permission denied", "Requested device not found"}
RecorderError == "audio/webm is not supported"
StartError    == "recorder failed to start"
FetchError    == "Failed to fetch"
BodyError     == "body stream failed"

\* response.ok taken for "any status from 200 up"
ResponseOkLoose(code) == code >= 200

\* response.ok
ResponseOk(code) == code >= 200 /\ code <= 299

\* ---------------------------------------------------------------- status texts
TxtChecking   == "Checking connection to server..."
TxtConnected  == "Server connection established. Ready to record."
TxtWarning    == "Warning: Server connection issue. Recording may not work."
TxtRequesting == "Requesting microphone access..."
TxtListening  == "Listening..."
TxtProcessing == "Processing..."
TxtNoCors     == "Request sent in no-cors mode. Check server logs."
TxtReady      == "Response ready! Click \"Play Response\" to listen."
TxtConnError  == "Error connecting to server: "
TxtError      == "Error: "
TxtPlaying    == "Playing response..."
TxtComplete   == "Playback complete. Click \"Speak Now\" to record again."
TxtPlayError  == "Error playing audio."
TxtNoResponse == "No response audio available."

BtnSpeakNow  == "Speak Now"
BtnRecording == "Recording..."

\* status.textContent = text
Msg(text) == [text |-> text, code |-> 0, detail |-> "", info |-> FALSE]

\* status.textContent = 'Error: ' + error.message
ErrorMsg(message) == [text |-> TxtError, code |-> 0, detail |-> message, info |-> FALSE]

\* status.textContent = 'Error connecting to server: ' + fetchError.message,
\* followed by status.appendChild(additionalInfo)
ConnErrorMsg(code, message) ==
    [text |-> TxtConnError, code |-> code, detail |-> message, info |-> TRUE]

VARIABLES
    status,         \* status.textContent (and the appended help block)
    playHidden,     \* playBtn.classList contains 'hidden'
    audioBlob,      \* the shared response blob, Null or the owner session
    recordBtnText,  \* recordBtn.textContent
    micPulse,       \* micIcon carries 'animate-pulse'
    liveness,       \* the startup /test fetch: "pending", "ok", "failed"
    sessions,       \* per record click: the closure's state
    nextSession,    \* number of record clicks so far + 1
    settled,        \* sessions whose exchange had ended at the latest record click
    audios,         \* the Audio elements built by play clicks
    playClicks      \* number of play clicks so far

vars == <<status, playHidden, audioBlob, recordBtnText, micPulse, liveness,
          sessions, nextSession, settled, audios, playClicks>>

ui == <<status, playHidden, audioBlob, recordBtnText, micPulse>>

NoSession ==
    [pc        |-> "unused",   \* where the session's async code is suspended
     stream    |-> "none",     \* the MediaStream: none, live, ended, stopped
     recorder  |-> "none",     \* mediaRecorder.state: none, recording, inactive
     timer     |-> "none",     \* the setTimeout: none, armed, fired
     chunks    |-> <<>>,       \* const chunks = []
     built     |-> 0,          \* times onstop ran (audio bundles built)
     blob      |-> <<>>,       \* the Blob built by onstop
     corsSent  |-> 0,          \* requests dispatched with mode 'cors'
     noCorsSent|-> 0,          \* requests dispatched with mode 'no-cors'
     cors      |-> "none",     \* primary request: none, pending, resolved, rejected
     noCors    |-> "none",     \* fallback request: none, pending, resolved, rejected
     respStatus|-> 0,          \* response.status of the primary request
     respBody  |-> "",         \* the error text carried by that response
     body      |-> "none",     \* body read: none, text, blob, failed
     stored    |-> FALSE,      \* this session assigned audioBlob and showed playBtn
     said      |-> {}]         \* status texts this session has set

Init ==
    /\ status = Msg(TxtChecking)
    /\ playHidden = TRUE
    /\ audioBlob = Null
    /\ recordBtnText = BtnSpeakNow
    /\ micPulse = FALSE
    /\ liveness = "pending"
    /\ sessions = [s \in Sessions |-> NoSession]
    /\ nextSession = 1
    /\ settled = {}
    /\ audios = <<>>
    /\ playClicks = 0

\* ---------------------------------------------------------------- helpers
Say(s, text) == [s EXCEPT !.said = @ \cup {text}]

\* the k-th chunk emitted by the recorder of session s
Chunk(s, k) == <<s, k>>

\* chunks.unshift(e.data): the newest chunk goes first
PushFront(chunks, data) == <<data>> \o chunks

\* chunks.push(e.data)
Push(chunks, data) == Append(chunks, data)

\* new Blob(chunks, { type: 'audio/webm' })
MakeBlob(chunks) == chunks

\* ---------------------------------------------------------------- liveness check
LivenessResolve ==
    /\ liveness = "pending"
    /\ liveness' = "ok"
    /\ status' = Msg(TxtConnected)
    /\ UNCHANGED <<playHidden, audioBlob, recordBtnText, micPulse,
                   sessions, nextSession, settled, audios, playClicks>>

LivenessReject ==
    /\ liveness = "pending"
    /\ liveness' = "failed"
    /\ status' = Msg(TxtWarning)
    /\ UNCHANGED <<playHidden, audioBlob, recordBtnText, micPulse,
                   sessions, nextSession, settled, audios, playClicks>>

\* ---------------------------------------------------------------- capture
\* the exchange of a session has ended: onstop ran to its end
Exchanged(sess) == sess.pc = "done" /\ sess.built > 0

\* recordBtn click that is accepted only once the liveness check has succeeded
RecordClickGated(n) ==
    /\ liveness = "ok"
    /\ nextSession <= n
    /\ settled' = {c \in Sessions : Exchanged(sessions[c])}
    /\ status' = Msg(TxtRequesting)
    /\ playHidden' = TRUE
    /\ audioBlob' = Null
    /\ sessions' = [sessions EXCEPT ![nextSession] =
                        Say([NoSession EXCEPT !.pc = "awaitGUM"], TxtRequesting)]
    /\ nextSession' = nextSession + 1
    /\ UNCHANGED <<recordBtnText, micPulse, liveness, audios, playClicks>>

\* recordBtn click, up to the await of getUserMedia (at most n clicks)
RecordClickUpTo(n) ==
    /\ nextSession <= n
    /\ settled' = {c \in Sessions : Exchanged(sessions[c])}
    /\ status' = Msg(TxtRequesting)
    /\ playHidden' = TRUE
    /\ audioBlob' = Null
    /\ sessions' = [sessions EXCEPT ![nextSession] =
                        Say([NoSession EXCEPT !.pc = "awaitGUM"], TxtRequesting)]
    /\ nextSession' = nextSession + 1
    /\ UNCHANGED <<recordBtnText, micPulse, liveness, audios, playClicks>>

RecordClick == RecordClickUpTo(MaxSessions)

RecordAgain == RecordClickUpTo(MaxRerecords)

\* the catch (error) block of the click handler
CatchError(s, sess, message) ==
    /\ recordBtnText' = BtnSpeakNow
    /\ micPulse' = FALSE
    /\ status' = ErrorMsg(message)
    /\ sessions' = [sessions EXCEPT ![s] = Say([sess EXCEPT !.pc = "done"], TxtError)]
    /\ UNCHANGED <<playHidden, audioBlob, liveness, nextSession, settled, audios, playClicks>>

\* getUserMedia rejects and the catch block forgets the record button
GUMRejectKeepsButton(s) ==
    /\ sessions[s].pc = "awaitGUM"
    /\ \E e \in DeviceErrors : status' = ErrorMsg(e)
    /\ sessions' = [sessions EXCEPT ![s] = Say([@ EXCEPT !.pc = "done"], TxtError)]
    /\ UNCHANGED <<recordBtnText, micPulse, playHidden, audioBlob, liveness,
                   nextSession, settled, audios, playClicks>>

\* getUserMedia rejects
GUMReject(s) ==
    /\ sessions[s].pc = "awaitGUM"
    /\ \E e \in DeviceErrors : CatchError(s, sessions[s], e)

\* getUserMedia resolves, new MediaRecorder(...) throws
RecorderCtorThrows(s) ==
    /\ sessions[s].pc = "awaitGUM"
    /\ CatchError(s, [sessions[s] EXCEPT !.stream = "live"], RecorderError)

\* getUserMedia resolves, mediaRecorder.start() throws
RecorderStartThrows(s) ==
    /\ sessions[s].pc = "awaitGUM"
    /\ CatchError(s, [sessions[s] EXCEPT !.stream = "live", !.recorder = "inactive"],
                  StartError)

\* getUserMedia resolves and recording starts; handlers and the timer are set
GUMResolve(s) ==
    /\ sessions[s].pc = "awaitGUM"
    /\ recordBtnText' = BtnRecording
    /\ micPulse' = TRUE
    /\ status' = Msg(TxtListening)
    /\ sessions' = [sessions EXCEPT ![s] =
           Say([@ EXCEPT !.pc = "recording", !.stream = "live",
                         !.recorder = "recording", !.timer = "armed"], TxtListening)]
    /\ UNCHANGED <<playHidden, audioBlob, liveness, nextSession, settled, audios, playClicks>>

\* mediaRecorder.ondataavailable
DataAvailable(s) ==
    /\ sessions[s].pc \in {"recording", "stopping"}
    /\ Len(sessions[s].chunks) < MaxChunks
    /\ sessions' = [sessions EXCEPT ![s].chunks =
                        Push(@, Chunk(s, Len(sessions[s].chunks) + 1))]
    /\ UNCHANGED <<ui, liveness, nextSession, settled, audios, playClicks>>

\* the setTimeout callback without the state check: the stop is queued again
TimerFireNoGuard(s) ==
    /\ sessions[s].timer = "armed"
    /\ sessions' = [sessions EXCEPT ![s] =
           [@ EXCEPT !.timer = "fired", !.recorder = "inactive", !.pc = "stopping"]]
    /\ UNCHANGED <<ui, liveness, nextSession, settled, audios, playClicks>>

\* the setTimeout callback stopping whatever recorder is running, as it would
\* with one mediaRecorder variable shared by all clicks
TimerFireStopsAny(s) ==
    /\ sessions[s].timer = "armed"
    /\ sessions' = [u \in Sessions |->
           IF sessions[u].recorder = "recording"
           THEN [sessions[u] EXCEPT !.timer = IF u = s THEN "fired" ELSE @,
                                    !.recorder = "inactive", !.pc = "stopping"]
           ELSE [sessions[u] EXCEPT !.timer = IF u = s THEN "fired" ELSE @]]
    /\ UNCHANGED <<ui, liveness, nextSession, settled, audios, playClicks>>

\* the setTimeout callback: stop() only if still recording
TimerFire(s) ==
    /\ sessions[s].timer = "armed"
    /\ sessions' = [sessions EXCEPT ![s] =
           IF @.recorder = "recording"
           THEN [@ EXCEPT !.timer = "fired", !.recorder = "inactive", !.pc = "stopping"]
           ELSE [@ EXCEPT !.timer = "fired"]]
    /\ UNCHANGED <<ui, liveness, nextSession, settled, audios, playClicks>>

\* the browser stops the recorder because the stream's tracks ended
TrackEnded(s) ==
    /\ sessions[s].recorder = "recording"
    /\ sessions' = [sessions EXCEPT ![s] =
           [@ EXCEPT !.stream = "ended", !.recorder = "inactive", !.pc = "stopping"]]
    /\ UNCHANGED <<ui, liveness, nextSession, settled, audios, playClicks>>

\* mediaRecorder.onstop, up to the await of the cors fetch
OnStop(s) ==
    /\ sessions[s].pc = "stopping"
    /\ recordBtnText' = BtnSpeakNow
    /\ micPulse' = FALSE
    /\ status' = Msg(TxtProcessing)
    /\ sessions' = [sessions EXCEPT ![s] =
           Say([@ EXCEPT !.pc = "awaitCors", !.built = @ + 1,
                         !.blob = MakeBlob(sessions[s].chunks),
                         !.corsSent = @ + 1, !.cors = "pending"], TxtProcessing)]
    /\ UNCHANGED <<playHidden, audioBlob, liveness, nextSession, settled, audios, playClicks>>

\* ---------------------------------------------------------------- exchange
\* the cors fetch resolves with a response: next await is text() or blob()
CorsResolve(s) ==
    /\ sessions[s].pc = "awaitCors"
    /\ \E r \in Responses :
          sessions' = [sessions EXCEPT ![s] =
              [@ EXCEPT !.cors = "resolved", !.respStatus = r.status, !.respBody = r.body,
                        !.pc = IF ResponseOk(r.status) THEN "awaitBlob" ELSE "awaitText"]]
    /\ UNCHANGED <<ui, liveness, nextSession, settled, audios, playClicks>>

\* the cors fetch rejects and the catch block only logs: nothing is reported
CorsRejectSwallowed(s) ==
    /\ sessions[s].pc = "awaitCors"
    /\ sessions' = [sessions EXCEPT ![s] = [@ EXCEPT !.cors = "rejected", !.pc = "done"]]
    /\ UNCHANGED <<ui, liveness, nextSession, settled, audios, playClicks>>

\* the cors fetch rejects: catch (corsError) dispatches the no-cors fetch
CorsReject(s) ==
    /\ sessions[s].pc = "awaitCors"
    /\ sessions' = [sessions EXCEPT ![s] =
           [@ EXCEPT !.cors = "rejected", !.pc = "awaitNoCors",
                     !.noCorsSent = @ + 1, !.noCors = "pending"]]
    /\ UNCHANGED <<ui, liveness, nextSession, settled, audios, playClicks>>

\* the no-cors fetch resolves and the opaque response is taken for the answer
NoCorsResolveAsSuccess(s) ==
    /\ sessions[s].pc = "awaitNoCors"
    /\ audioBlob' = s
    /\ playHidden' = FALSE
    /\ status' = Msg(TxtReady)
    /\ sessions' = [sessions EXCEPT ![s] =
           Say([@ EXCEPT !.noCors = "resolved", !.stored = TRUE, !.pc = "done"], TxtReady)]
    /\ UNCHANGED <<recordBtnText, micPulse, liveness, nextSession, settled,
                   audios, playClicks>>

\* the no-cors fetch resolves: status message and return
NoCorsResolve(s) ==
    /\ sessions[s].pc = "awaitNoCors"
    /\ status' = Msg(TxtNoCors)
    /\ sessions' = [sessions EXCEPT ![s] =
           Say([@ EXCEPT !.noCors = "resolved", !.pc = "done"], TxtNoCors)]
    /\ UNCHANGED <<playHidden, audioBlob, recordBtnText, micPulse,
                   liveness, nextSession, settled, audios, playClicks>>

\* the catch (fetchError) block of onstop
CatchFetchErrorResetsButton(s, sess, code, message) ==
    /\ status' = ConnErrorMsg(code, message)
    /\ recordBtnText' = BtnSpeakNow
    /\ micPulse' = FALSE
    /\ sessions' = [sessions EXCEPT ![s] = Say([sess EXCEPT !.pc = "done"], TxtConnError)]
    /\ UNCHANGED <<playHidden, audioBlob, liveness, nextSession, settled, audios, playClicks>>

\* catch (fetchError), lines 241-244: report the failure, the session is over

CatchFetchError(s, sess, code, message) ==
    /\ status' = ConnErrorMsg(code, message)
    /\ sessions' = [sessions EXCEPT ![s] = Say([sess EXCEPT !.pc = "done"], TxtConnError)]
    /\ UNCHANGED <<playHidden, audioBlob, recordBtnText, micPulse,
                   liveness, nextSession, settled, audios, playClicks>>

\* the no-cors fetch rejects and the rejection is reported like a sent request
NoCorsRejectAsSent(s) ==
    /\ sessions[s].pc = "awaitNoCors"
    /\ status' = Msg(TxtNoCors)
    /\ sessions' = [sessions EXCEPT ![s] =
           Say([@ EXCEPT !.noCors = "rejected", !.pc = "done"], TxtNoCors)]
    /\ UNCHANGED <<playHidden, audioBlob, recordBtnText, micPulse,
                   liveness, nextSession, settled, audios, playClicks>>

\* the no-cors fetch rejects too
NoCorsReject(s) ==
    /\ sessions[s].pc = "awaitNoCors"
    /\ CatchFetchError(s, [sessions[s] EXCEPT !.noCors = "rejected"], 0, FetchError)

\* !response.ok handled like a transport failure: the no-cors request is sent
TextResolveFallsBack(s) ==
    /\ sessions[s].pc = "awaitText"
    /\ sessions' = [sessions EXCEPT ![s] =
           [@ EXCEPT !.body = "text", !.pc = "awaitNoCors",
                     !.noCorsSent = @ + 1, !.noCors = "pending"]]
    /\ UNCHANGED <<ui, liveness, nextSession, settled, audios, playClicks>>

\* !response.ok: the thrown Error carries the body but not response.status
TextResolveDropsStatus(s) ==
    /\ sessions[s].pc = "awaitText"
    /\ CatchFetchError(s, [sessions[s] EXCEPT !.body = "text"], 0, sessions[s].respBody)

\* !response.ok: response.text() resolves, throw new Error('Server error: ...')
TextResolve(s) ==
    /\ sessions[s].pc = "awaitText"
    /\ CatchFetchError(s, [sessions[s] EXCEPT !.body = "text"],
                       sessions[s].respStatus, sessions[s].respBody)

\* response.text() rejects
TextReject(s) ==
    /\ sessions[s].pc = "awaitText"
    /\ CatchFetchError(s, [sessions[s] EXCEPT !.body = "failed"], 0, BodyError)

\* response.blob() resolves: store the response, show the play button
BlobResolveNoShow(s) ==
    /\ sessions[s].pc = "awaitBlob"
    /\ audioBlob' = s
    /\ status' = Msg(TxtReady)
    /\ sessions' = [sessions EXCEPT ![s] =
           Say([@ EXCEPT !.body = "blob", !.stored = TRUE, !.pc = "done"], TxtReady)]
    /\ UNCHANGED <<playHidden, recordBtnText, micPulse, liveness, nextSession,
                   settled, audios, playClicks>>

\* response.blob() resolves: store the response, show playBtn, 'Response ready'

BlobResolve(s) ==
    /\ sessions[s].pc = "awaitBlob"
    /\ audioBlob' = s
    /\ playHidden' = FALSE
    /\ status' = Msg(TxtReady)
    /\ sessions' = [sessions EXCEPT ![s] =
           Say([@ EXCEPT !.body = "blob", !.stored = TRUE, !.pc = "done"], TxtReady)]
    /\ UNCHANGED <<recordBtnText, micPulse, liveness, nextSession, settled, audios, playClicks>>

\* response.blob() rejects
BlobReject(s) ==
    /\ sessions[s].pc = "awaitBlob"
    /\ CatchFetchError(s, [sessions[s] EXCEPT !.body = "failed"], 0, BodyError)

\* ---------------------------------------------------------------- playback
\* new Audio(URL.createObjectURL(audioBlob)) after audio.play()
NewAudio(blob) == [src |-> blob, state |-> "starting", url |-> "live"]

\* playBtn click without the if (audioBlob) check
PlayClickNoCheck ==
    /\ playClicks < MaxPlays
    /\ playClicks' = playClicks + 1
    /\ audios' = Append(audios, NewAudio(audioBlob))
    /\ status' = Msg(TxtPlaying)
    /\ UNCHANGED <<playHidden, audioBlob, recordBtnText, micPulse,
                   liveness, sessions, nextSession, settled>>

\* playBtn click
PlayClick ==
    /\ playClicks < MaxPlays
    /\ playClicks' = playClicks + 1
    /\ IF audioBlob # Null
       THEN /\ audios' = Append(audios, NewAudio(audioBlob))
            /\ status' = Msg(TxtPlaying)
       ELSE /\ audios' = audios
            /\ status' = Msg(TxtNoResponse)
    /\ UNCHANGED <<playHidden, audioBlob, recordBtnText, micPulse,
                   liveness, sessions, nextSession, settled>>

\* the promise of audio.play() fulfils: playback has begun
PlayStarted(a) ==
    /\ audios[a].state = "starting"
    /\ audios' = [audios EXCEPT ![a].state = "playing"]
    /\ UNCHANGED <<ui, liveness, sessions, nextSession, settled, playClicks>>

\* the promise of audio.play() rejects (e.g. NotAllowedError); nothing handles it
PlayRejected(a) ==
    /\ audios[a].state = "starting"
    /\ audios' = [audios EXCEPT ![a].state = "rejected"]
    /\ UNCHANGED <<ui, liveness, sessions, nextSession, settled, playClicks>>

\* audio.onended that also drops the response once it has been played
AudioEndedReleases(a) ==
    /\ audios[a].state = "playing"
    /\ audios' = [audios EXCEPT ![a].state = "ended"]
    /\ status' = Msg(TxtComplete)
    /\ audioBlob' = Null
    /\ playHidden' = TRUE
    /\ UNCHANGED <<recordBtnText, micPulse, liveness, sessions, nextSession,
                   settled, playClicks>>

\* audio.onended
AudioEnded(a) ==
    /\ audios[a].state = "playing"
    /\ audios' = [audios EXCEPT ![a].state = "ended"]
    /\ status' = Msg(TxtComplete)
    /\ UNCHANGED <<playHidden, audioBlob, recordBtnText, micPulse,
                   liveness, sessions, nextSession, settled, playClicks>>

\* audio.onerror that also discards the response that failed to play
AudioErrorDiscards(a) ==
    /\ audios[a].state \in {"starting", "playing"}
    /\ audios' = [audios EXCEPT ![a].state = "failed"]
    /\ status' = Msg(TxtPlayError)
    /\ audioBlob' = Null
    /\ playHidden' = TRUE
    /\ UNCHANGED <<recordBtnText, micPulse, liveness, sessions, nextSession,
                   settled, playClicks>>

\* audio.onerror
AudioError(a) ==
    /\ audios[a].state \in {"starting", "playing"}
    /\ audios' = [audios EXCEPT ![a].state = "failed"]
    /\ status' = Msg(TxtPlayError)
    /\ UNCHANGED <<playHidden, audioBlob, recordBtnText, micPulse,
                   liveness, sessions, nextSession, settled, playClicks>>

\* ---------------------------------------------------------------- specification
Next ==
    \/ LivenessResolve
    \/ LivenessReject
    \/ RecordClick
    \/ \E s \in Sessions : GUMReject(s)
    \/ \E s \in Sessions : RecorderCtorThrows(s)
    \/ \E s \in Sessions : RecorderStartThrows(s)
    \/ \E s \in Sessions : GUMResolve(s)
    \/ \E s \in Sessions : DataAvailable(s)
    \/ \E s \in Sessions : TimerFire(s)
    \/ \E s \in Sessions : TrackEnded(s)
    \/ \E s \in Sessions : OnStop(s)
    \/ \E s \in Sessions : CorsResolve(s)
    \/ \E s \in Sessions : CorsReject(s)
    \/ \E s \in Sessions : NoCorsResolve(s)
    \/ \E s \in Sessions : NoCorsReject(s)
    \/ \E s \in Sessions : TextResolve(s)
    \/ \E s \in Sessions : TextReject(s)
    \/ \E s \in Sessions : BlobResolve(s)
    \/ \E s \in Sessions : BlobReject(s)
    \/ PlayClick
    \/ \E a \in DOMAIN audios : PlayStarted(a)
    \/ \E a \in DOMAIN audios : PlayRejected(a)
    \/ \E a \in DOMAIN audios : AudioEnded(a)
    \/ \E a \in DOMAIN audios : AudioError(a)

Spec == Init /\ [][Next]_vars

\* a pending fetch or body read of session s settles
Settles(s) ==
    \/ CorsResolve(s) \/ CorsReject(s)
    \/ NoCorsResolve(s) \/ NoCorsReject(s)
    \/ TextResolve(s) \/ TextReject(s)
    \/ BlobResolve(s) \/ BlobReject(s)

\* The user's two commands with the capture and the exchange of overlapping
\* sessions: the liveness check, the device failures and the events of the
\* Audio elements touch no session that has started recording and are left out.
NextExchange ==
    \/ RecordClickUpTo(MaxSessions)
    \/ \E s \in Sessions : GUMResolve(s)
    \/ \E s \in Sessions : DataAvailable(s)
    \/ \E s \in Sessions : TimerFire(s)
    \/ \E s \in Sessions : TrackEnded(s)
    \/ \E s \in Sessions : OnStop(s)
    \/ \E s \in Sessions : CorsResolve(s)
    \/ \E s \in Sessions : CorsReject(s)
    \/ \E s \in Sessions : NoCorsResolve(s)
    \/ \E s \in Sessions : NoCorsReject(s)
    \/ \E s \in Sessions : TextResolve(s)
    \/ \E s \in Sessions : TextReject(s)
    \/ \E s \in Sessions : BlobResolve(s)
    \/ \E s \in Sessions : BlobReject(s)
    \/ PlayClick

\* Every timer fires, every stop event is delivered and every request and body
\* read settles: the browser's event loop runs each queued task.
FairSpec ==
    /\ Init /\ [][NextExchange]_vars
    /\ \A s \in Sessions :
          /\ WF_vars(TimerFire(s))
          /\ WF_vars(OnStop(s))
          /\ WF_vars(Settles(s))

\* Three record clicks with the failures of the recorder, of the body reads and
\* of the audio element left out: every behaviour of it is one of the program.
NextRerecord ==
    \/ RecordAgain
    \/ \E s \in Sessions : GUMReject(s)
    \/ \E s \in Sessions : GUMResolve(s)
    \/ \E s \in Sessions : TimerFire(s)
    \/ \E s \in Sessions : OnStop(s)
    \/ \E s \in Sessions : CorsResolve(s)
    \/ \E s \in Sessions : CorsReject(s)
    \/ \E s \in Sessions : NoCorsResolve(s)
    \/ \E s \in Sessions : NoCorsReject(s)
    \/ \E s \in Sessions : TextResolve(s)
    \/ \E s \in Sessions : BlobResolve(s)
    \/ PlayClick

SpecRerecord == Init /\ [][NextRerecord]_vars

\* ================================================================ claims
Exchanging == {"awaitCors", "awaitNoCors", "awaitText", "awaitBlob"}

\* C1: when the cors request was rejected and the no-cors request resolves, the
\* session ends with the no-cors status message and nothing else: audioBlob and
\* the play button are left alone, and that session never sets 'Response ready'
\* or 'Error connecting to server'.
C1_IndeterminateNotSuccess ==
    [][\A s \in Sessions :
        /\ (sessions[s].noCors = "pending" /\ sessions'[s].noCors = "resolved") =>
              /\ sessions[s].cors = "rejected"
              /\ status' = [text |-> TxtNoCors, code |-> 0, detail |-> "", info |-> FALSE]
              /\ audioBlob' = audioBlob
              /\ playHidden' = playHidden
              /\ sessions'[s].pc = "done"
        /\ sessions'[s].noCors = "resolved" =>
              /\ ~sessions'[s].stored
              /\ TxtNoCors \in sessions'[s].said
              /\ sessions'[s].said \cap {TxtReady, TxtConnError} = {}]_vars

C1_Witness ==
    \E s \in Sessions :
        /\ sessions[s].cors = "rejected"
        /\ sessions[s].noCors = "resolved"
        /\ status.text = TxtNoCors

\* C2: when the cors response has a non-success status and its text is read, the
\* status reports exactly that status code and that text; such a session never
\* stores a response, never shows the play button and never sends the no-cors
\* request.
C2_RemoteError ==
    [][\A s \in Sessions :
        /\ (sessions[s].pc = "awaitText" /\ sessions'[s].body = "text") =>
              /\ status'.text = TxtConnError
              /\ status'.code = sessions[s].respStatus
              /\ status'.detail = sessions[s].respBody
              /\ audioBlob' = audioBlob
              /\ playHidden' = playHidden
              /\ sessions'[s].pc = "done"
        /\ (sessions'[s].cors = "resolved" /\ sessions'[s].respStatus \notin 200..299) =>
              /\ ~sessions'[s].stored
              /\ sessions'[s].noCorsSent = 0
              /\ sessions'[s].noCors = "none"
              /\ TxtReady \notin sessions'[s].said]_vars

C2_Witness ==
    \E s \in Sessions :
        /\ sessions[s].body = "text"
        /\ status.text = TxtConnError
        /\ status.code = 500
        /\ status.detail = "model unavailable"
        /\ audioBlob = Null

\* C3: audioBlob is non-null only as the blob of a session whose cors request
\* resolved with a 2xx status and whose body was read with blob(); a session
\* that did not take that path never stored a response.
C3_OnlySuccessStores ==
    /\ audioBlob # Null =>
          /\ audioBlob \in Sessions
          /\ sessions[audioBlob].stored
    /\ \A s \in Sessions :
          sessions[s].stored =>
              /\ sessions[s].cors = "resolved"
              /\ sessions[s].respStatus \in 200..299
              /\ sessions[s].body = "blob"
              /\ sessions[s].noCorsSent = 0
              /\ sessions[s].pc = "done"

C3_Witness ==
    /\ audioBlob # Null
    /\ \E s \in Sessions : sessions[s].pc = "done" /\ ~sessions[s].stored /\ sessions[s].built = 1

\* C4: when getUserMedia rejects, the status shows 'Error: ' with the device
\* error, the record button and the microphone icon are reset, and that session
\* has no recorder, no timer, no chunks, no audio bundle and no request.
C4_DeviceDenied ==
    [][\A s \in Sessions :
        /\ (sessions[s].pc = "awaitGUM" /\ sessions'[s].pc = "done"
                /\ sessions'[s].stream = "none") =>
              /\ status'.text = TxtError
              /\ status'.detail \in DeviceErrors
              /\ recordBtnText' = BtnSpeakNow
              /\ micPulse' = FALSE
        /\ (sessions'[s].pc = "done" /\ sessions'[s].stream = "none") =>
              /\ sessions'[s].recorder = "none"
              /\ sessions'[s].timer = "none"
              /\ sessions'[s].chunks = <<>>
              /\ sessions'[s].built = 0
              /\ sessions'[s].corsSent = 0
              /\ sessions'[s].noCorsSent = 0]_vars

C4_Witness ==
    \E s \in Sessions :
        /\ sessions[s].pc = "done"
        /\ sessions[s].stream = "none"
        /\ status.text = TxtError
        /\ status.detail = "Permission denied"
        /\ recordBtnText = BtnSpeakNow

\* C5: a timer that fires on a recording recorder stops it, and onstop then runs
\* once for that session and builds the bundle from exactly the chunks pushed so
\* far; a timer that fires on a recorder no longer recording changes nothing
\* but the timer itself.
C5_TimerStopsOnce ==
    [][\A s \in Sessions :
        /\ (sessions[s].timer = "armed" /\ sessions'[s].timer = "fired") =>
              IF sessions[s].recorder = "recording"
              THEN /\ sessions'[s].recorder = "inactive"
                   /\ sessions'[s].pc = "stopping"
                   /\ sessions'[s].built = 0
              ELSE /\ sessions'[s] = [sessions[s] EXCEPT !.timer = "fired"]
                   /\ UNCHANGED ui
        /\ sessions'[s].built # sessions[s].built =>
              /\ sessions[s].pc = "stopping"
              /\ sessions'[s].built = 1
              /\ sessions'[s].blob = sessions[s].chunks
        /\ (sessions'[s].pc \in Exchanging \/ sessions'[s].cors # "none") =>
              sessions'[s].built = 1]_vars

C5_Witness ==
    \E s, t \in Sessions :
        /\ sessions[s].timer = "fired" /\ sessions[s].stream = "live"
        /\ sessions[s].built = 1 /\ sessions[s].blob = <<>>
        /\ sessions[t].timer = "fired" /\ sessions[t].stream = "ended"
        /\ sessions[t].built = 1 /\ Len(sessions[t].blob) = MaxChunks

\* C6: a play click while audioBlob is null sets the status to 'No response
\* audio available.' and changes nothing else: no Audio element, no change to
\* audioBlob, the buttons or any session.
C6_PlayWithoutResponse ==
    [][(playClicks' # playClicks /\ audioBlob = Null) =>
           /\ status' = [text |-> TxtNoResponse, code |-> 0, detail |-> "", info |-> FALSE]
           /\ UNCHANGED <<playHidden, audioBlob, recordBtnText, micPulse, liveness,
                          sessions, nextSession, settled, audios>>]_vars

C6_Witness ==
    /\ status.text = TxtNoResponse
    /\ audioBlob = Null
    /\ \E s \in Sessions : sessions[s].stored

\* C7: after one record click whose exchange stored a response and one play
\* click whose audio has ended, the record button and icon are idle, the
\* recorder is inactive, the play button is shown and audioBlob still is that
\* session's response, which is also what was played.
C7_RoundTrip ==
    (/\ nextSession = 2
     /\ sessions[1].stored
     /\ playClicks = 1
     /\ Len(audios) = 1
     /\ audios[1].state = "ended") =>
        /\ recordBtnText = BtnSpeakNow
        /\ micPulse = FALSE
        /\ sessions[1].recorder = "inactive"
        /\ sessions[1].pc = "done"
        /\ audioBlob = 1
        /\ audios[1].src = 1
        /\ playHidden = FALSE
        /\ status.text \in {TxtComplete, TxtConnected, TxtWarning}

C7_Witness ==
    /\ nextSession = 2
    /\ sessions[1].stored
    /\ playClicks = 1
    /\ Len(audios) = 1
    /\ audios[1].state = "ended"
    /\ status.text = TxtComplete

\* C8: once a record click has followed a session whose exchange had ended, no
\* response is stored (a play click finds audioBlob null) until the session of
\* the latest record click has stored its own.
C8_FreshAfterRerecord ==
    (/\ nextSession > 1
     /\ settled # {}
     /\ ~sessions[nextSession - 1].stored) => audioBlob = Null

\* C9: once the capture of a session is over (onstop has run, or the click
\* handler has ended in its catch block), its microphone stream is not live.
C9_StreamReleased ==
    \A s \in Sessions :
        sessions[s].pc \in Exchanging \cup {"done"} => sessions[s].stream # "live"

\* C10: every error sets the status to an error message: a session that ends
\* in anything but a stored response or the no-cors message sets 'Error: ' or
\* 'Error connecting to server: ', and an Audio element whose play() rejects or
\* that reports an error sets 'Error playing audio.'.
C10_ErrorsVisible ==
    [][/\ \A s \in Sessions :
            (/\ sessions[s].pc # "done"
             /\ sessions'[s].pc = "done"
             /\ ~sessions'[s].stored
             /\ sessions'[s].noCors # "resolved") =>
                status'.text \in {TxtError, TxtConnError}
       /\ \A a \in DOMAIN audios :
            (/\ audios[a].state \in {"starting", "playing"}
             /\ audios'[a].state \in {"rejected", "failed"}) =>
                status'.text = TxtPlayError]_vars

\* a session is live from its record click until its handler chain has ended
Live(sess) == sess.pc \notin {"unused", "done"}

\* C11: at most one session is live at a time, and at most one recorder is in
\* the recording state.
C11_OneLiveSession ==
    \A s, t \in Sessions :
        s # t => ~(Live(sessions[s]) /\ Live(sessions[t]))

\* C12: when an Audio element reports an error the status becomes 'Error
\* playing audio.' while audioBlob and the play button stay as they are, and a
\* play click with a stored response builds a new Audio element on that same
\* response.
C12_PlaybackErrorKeepsBundle ==
    [][/\ \A a \in DOMAIN audios :
            (audios[a].state # "failed" /\ audios'[a].state = "failed") =>
                /\ status' = [text |-> TxtPlayError, code |-> 0, detail |-> "", info |-> FALSE]
                /\ audioBlob' = audioBlob
                /\ playHidden' = playHidden
                /\ audios'[a].src = audios[a].src
       /\ (playClicks' # playClicks /\ audioBlob # Null) =>
                /\ Len(audios') = Len(audios) + 1
                /\ audios'[Len(audios')].src = audioBlob
                /\ audios'[Len(audios')].state = "starting"
                /\ status'.text = TxtPlaying
                /\ audioBlob' = audioBlob]_vars

C12_Witness ==
    /\ Len(audios) = 2
    /\ audios[1].state = "failed"
    /\ audios[2].state = "starting"
    /\ audios[2].src = audios[1].src
    /\ audioBlob = audios[1].src
    /\ status.text = TxtPlaying

\* C13: a session sends at most one cors request (one per bundle built) and at
\* most one no-cors request, the no-cors request only once the cors request
\* has been rejected, and no request once the session has reported its outcome.
C13_SingleAttemptPerTier ==
    [][\A s \in Sessions :
        /\ sessions'[s].corsSent = sessions'[s].built
        /\ sessions'[s].corsSent <= 1
        /\ sessions'[s].noCorsSent <= 1
        /\ sessions'[s].noCorsSent > 0 =>
              /\ sessions'[s].cors = "rejected"
              /\ sessions'[s].corsSent = 1
              /\ sessions'[s].body = "none"
        /\ sessions'[s].noCorsSent # sessions[s].noCorsSent =>
              /\ sessions[s].cors = "pending"
              /\ sessions'[s].cors = "rejected"
        /\ sessions[s].pc = "done" =>
              /\ sessions'[s].corsSent = sessions[s].corsSent
              /\ sessions'[s].noCorsSent = sessions[s].noCorsSent
              /\ sessions'[s].pc = "done"]_vars

C13_Witness ==
    \E s \in Sessions :
        /\ sessions[s].pc = "done"
        /\ sessions[s].corsSent = 1
        /\ sessions[s].noCorsSent = 1
        /\ sessions[s].noCors = "rejected"

\* C14: when the cors request was rejected and the no-cors request rejects too,
\* the status becomes 'Error connecting to server: ' with the fetch error and
\* not the no-cors message; audioBlob and the play button are left alone and
\* that session never stores a response.
C14_BothTiersFail ==
    [][\A s \in Sessions :
        /\ (sessions[s].noCors = "pending" /\ sessions'[s].noCors = "rejected") =>
              /\ sessions[s].cors = "rejected"
              /\ status'.text = TxtConnError
              /\ status'.detail = FetchError
              /\ audioBlob' = audioBlob
              /\ playHidden' = playHidden
              /\ sessions'[s].pc = "done"
        /\ sessions'[s].noCors = "rejected" =>
              /\ ~sessions'[s].stored
              /\ TxtConnError \in sessions'[s].said
              /\ sessions'[s].said \cap {TxtReady, TxtNoCors} = {}]_vars

C14_Witness ==
    \E s \in Sessions :
        /\ sessions[s].cors = "rejected"
        /\ sessions[s].noCors = "rejected"
        /\ status.text = TxtConnError
        /\ status.detail = FetchError
        /\ playHidden

\* C15: the outcome of the liveness check changes the status and nothing else,
\* and whatever that check's state a record click is accepted and every step
\* of a session's capture and exchange can be taken.
C15_LivenessAdvisory ==
    [][/\ liveness' # liveness =>
            /\ status'.text \in {TxtConnected, TxtWarning}
            /\ UNCHANGED <<playHidden, audioBlob, recordBtnText, micPulse,
                           sessions, nextSession, settled, audios, playClicks>>
       /\ nextSession <= MaxSessions => ENABLED RecordClick
       /\ \A s \in Sessions :
            /\ sessions[s].pc = "awaitGUM" => ENABLED GUMResolve(s)
            /\ sessions[s].pc = "recording" => ENABLED TimerFire(s)
            /\ sessions[s].pc = "stopping" => ENABLED OnStop(s)
            /\ sessions[s].pc = "awaitCors" => ENABLED CorsResolve(s)
            /\ sessions[s].pc = "awaitBlob" => ENABLED BlobResolve(s)]_vars

C15_Witness ==
    /\ liveness = "failed"
    /\ status.text = TxtReady
    /\ \E s \in Sessions : sessions[s].stored /\ audioBlob = s /\ ~playHidden

\* C16: a stored response is the response of the session of the latest record
\* click; a response of an earlier session is never stored after a later click.
C16_BundleOfLatestSession ==
    audioBlob # Null => audioBlob = nextSession - 1

\* the exchange results session sess has reported
Outcomes(sess) ==
    {o \in {"success", "indeterminate", "remote", "transport"} :
        \/ o = "success" /\ sess.stored
        \/ o = "indeterminate" /\ TxtNoCors \in sess.said
        \/ o = "remote" /\ TxtConnError \in sess.said /\ sess.body = "text"
        \/ o = "transport" /\ TxtConnError \in sess.said /\ sess.body # "text"}

\* C17: a session whose onstop has run reports no result while a request or a
\* body read is pending, exactly one result once it is done, and it does get
\* done when every request and body read settles.
C17_OneResultEventually ==
    /\ [](\A s \in Sessions :
            /\ sessions[s].pc \in Exchanging => Outcomes(sessions[s]) = {}
            /\ Exchanged(sessions[s]) => Cardinality(Outcomes(sessions[s])) = 1
            /\ sessions[s].built = 0 => Outcomes(sessions[s]) = {})
    /\ \A s \in Sessions :
            (sessions[s].pc \in Exchanging) ~> Exchanged(sessions[s])

C17_Witness ==
    \E s, t \in Sessions :
        /\ s # t
        /\ Exchanged(sessions[s]) /\ Outcomes(sessions[s]) = {"remote"}
        /\ Exchanged(sessions[t]) /\ Outcomes(sessions[t]) = {"indeterminate"}

\* the chunks session s has emitted so far, in emission order
Emitted(s, n) == [k \in 1..n |-> Chunk(s, k)]

\* C18: the chunk buffer of a session holds its own recorder's chunks in
\* emission order, and the audio bundle built by onstop is that buffer, whole
\* and in order, whatever the other sessions do.
C18_BundleIsOwnChunks ==
    \A s \in Sessions :
        /\ sessions[s].chunks = Emitted(s, Len(sessions[s].chunks))
        /\ sessions[s].built > 0 => sessions[s].blob = sessions[s].chunks
        /\ sessions[s].built = 0 => sessions[s].blob = <<>>

C18_Witness ==
    \E s, t \in Sessions :
        /\ s # t
        /\ sessions[s].pc \in Exchanging /\ sessions[t].pc \in Exchanging
        /\ sessions[s].blob = Emitted(s, MaxChunks)
        /\ sessions[t].blob = Emitted(t, MaxChunks)

\* what the capture keeps for one session
Capture(sess) == <<sess.stream, sess.recorder, sess.timer, sess.chunks, sess.built, sess.blob>>

\* C19: a step that handles an outcome of the primary or of the fallback
\* request, or dispatches the fallback, changes no recorder, no timer, no chunk
\* buffer, no built bundle, and neither the record button nor the indicator;
\* the handler that dispatches the primary request changes no recorder and no
\* chunk buffer, and builds the bundle of its own session only.
C19_ExchangeLeavesCapture ==
    [][\A s \in Sessions :
          /\ (sessions[s].pc \in Exchanging /\ sessions'[s].pc # sessions[s].pc) =>
                /\ recordBtnText' = recordBtnText
                /\ micPulse' = micPulse
                /\ \A u \in Sessions : Capture(sessions'[u]) = Capture(sessions[u])
          /\ sessions'[s].corsSent # sessions[s].corsSent =>
                \A u \in Sessions :
                    /\ sessions'[u].recorder = sessions[u].recorder
                    /\ sessions'[u].chunks = sessions[u].chunks
                    /\ u # s => Capture(sessions'[u]) = Capture(sessions[u])]_vars

C19_Witness ==
    \E s, t \in Sessions :
        /\ sessions[s].pc = "done" /\ sessions[s].noCors = "rejected"
        /\ sessions[t].pc = "recording" /\ sessions[t].recorder = "recording"
        /\ Len(sessions[t].chunks) > 0
        /\ recordBtnText = BtnRecording /\ micPulse
        /\ status.text = TxtConnError

\* the recorder of session s leaves the recording state in this step
LeavesRecording(s) ==
    sessions[s].recorder = "recording" /\ sessions'[s].recorder # "recording"

\* C20 as stated: a recorder leaves the recording state only in the step in
\* which its own session's timer fires.
C20_TimerOnlyStop ==
    [][\A s \in Sessions :
          LeavesRecording(s) =>
              sessions[s].timer = "armed" /\ sessions'[s].timer = "fired"]_vars

\* C20 amended: a recorder leaves the recording state only when its own
\* session's timer fires or when the browser stops it because its stream
\* ended, never in the step of a record click or a play click; its timer is
\* pending as long as it records; and every session that records reaches
\* onstop, which puts the record button and the indicator back to idle.
C20_StopByTimerOrStreamEnd ==
    /\ [][\A s \in Sessions :
            /\ LeavesRecording(s) =>
                  /\ \/ sessions[s].timer = "armed" /\ sessions'[s].timer = "fired"
                     \/ sessions[s].stream = "live" /\ sessions'[s].stream = "ended"
                  /\ nextSession' = nextSession
                  /\ playClicks' = playClicks
                  /\ sessions'[s].recorder = "inactive"
            /\ sessions'[s].built # sessions[s].built =>
                  /\ sessions[s].recorder = "inactive"
                  /\ recordBtnText' = BtnSpeakNow
                  /\ micPulse' = FALSE]_vars
    /\ [](\A s \in Sessions :
            sessions[s].recorder = "recording" => sessions[s].timer = "armed")
    /\ \A s \in Sessions :
            (sessions[s].recorder = "recording") ~> (sessions[s].built = 1)

C20_Witness ==
    \E s, t \in Sessions :
        /\ sessions[s].built = 1 /\ sessions[s].timer = "fired" /\ sessions[s].stream = "live"
        /\ sessions[t].built = 1 /\ sessions[t].stream = "ended"
        /\ playClicks > 0
        /\ recordBtnText = BtnSpeakNow /\ ~micPulse

\* the playback of Audio element a is over
Finished(a) == audios[a].state \in {"ended", "failed", "rejected"}

\* C21: the object URL of every Audio element whose playback has ended, failed
\* or never started has been revoked.
C21_PlaybackReleased ==
    \A a \in DOMAIN audios : Finished(a) => audios[a].url = "revoked"

\* C22: the play button is shown exactly while a response is stored, and a
\* click on the shown button creates an Audio element for the stored response
\* and never sets 'No response audio available.'.
C22_PlayButtonIffResponse ==
    /\ [](playHidden <=> audioBlob = Null)
    /\ [][(playClicks' # playClicks /\ ~playHidden) =>
             /\ status'.text = TxtPlaying
             /\ Len(audios') = Len(audios) + 1
             /\ audios'[Len(audios')].src = audioBlob]_vars

C22_Witness ==
    /\ nextSession = 3
    /\ sessions[2].pc \in Exchanging
    /\ sessions[1].stored /\ audioBlob = 1 /\ ~playHidden
    /\ Len(audios) = 1 /\ audios[1].src = 1
    /\ status.text = TxtPlaying

\* the status texts that tell the user nothing is being recorded
IdleTexts == {TxtConnected, TxtReady, TxtComplete}

\* C23: while some recorder is recording, the record button reads
\* 'Recording...' and the status is none of the idle messages.
C23_SignalMatchesRecorders ==
    (\E s \in Sessions : sessions[s].recorder = "recording") =>
        /\ recordBtnText = BtnRecording
        /\ status.text \notin IdleTexts

====
